---- MODULE Spec2Model ----
(***************************************************************************)
(* The data-access facade of the WhatsApp food ordering agent              *)
(* (src/src/services/database.js) and the startup sequence that probes it  *)
(* (src/src/server.js).                                                    *)
(*                                                                         *)
(* JavaScript values are represented as follows.                           *)
(*   string     a tuple of one-character strings, <<"A","b">> for "Ab"     *)
(*   undefined  the tuple Undefined, null the tuple Null (where a string   *)
(*              is expected), the records UndefinedObj / NullObj (where an *)
(*              object is expected)                                        *)
(*   number     an integer; NaN is the integer NaN                         *)
(*   object     a record, array a sequence                                 *)
(* A timestamp is the millisecond count of the clock: toISOString() of a   *)
(* Date keeps the millisecond and the store orders timestamps as the       *)
(* millisecond counts are ordered.                                         *)
(*                                                                         *)
(* An operation that awaits one transport call and reads nothing after it  *)
(* is one action, taken when the store answers.  createOrder() reads the   *)
(* clock before its await, and on the spreadsheet again after it, so it is *)
(* two or three actions and calls of several callers interleave.           *)
(*                                                                         *)
(* Three specifications share the actions.                                 *)
(*   Spec           every configuration, startup and every operation, the  *)
(*                  calls of one caller one after another                  *)
(*   SpecOrders     startup, the clock, createOrder() and                  *)
(*                  getOrdersByPhone() of concurrent callers               *)
(*   SpecCatalogue  startup and the inventory operations over every menu   *)
(*                  of at most MaxRows rows                                *)
(*                                                                         *)
(* returned, issued and last record what the callers were given; the       *)
(* program keeps none of them.                                             *)
(***************************************************************************)
EXTENDS Integers, Sequences, FiniteSets, TLC

VARIABLES
    env,            \* process.env: which configuration variables are set
    supabase,       \* this.supabase is set (the relational client)
    sheets,         \* this.sheets is set (the spreadsheet client)
    spreadsheetId,  \* this.spreadsheetId is set
    serverPc,       \* where startServer() is
    probe,          \* what initializeDatabase() met
    startLog,       \* what startup has logged
    inventory,      \* relational table inventory
    sheetInventory, \* spreadsheet range Inventory!A2:E1000
    orders,         \* relational table orders
    sheetOrders,    \* spreadsheet range Orders!A:G
    faqs,           \* relational table faqs
    sheetFaqs,      \* spreadsheet range FAQs!A2:D1000
    nextId,         \* the relational store's id sequence for orders
    now,            \* the clock, in milliseconds
    pending,        \* per caller: the createOrder() call suspended on its await
    returned,       \* per caller: the order its createOrder() just returned
    issued,         \* the ids of the orders createOrder() has returned
    last            \* the facade call that completed last, and its outcome

vars == <<env, supabase, sheets, spreadsheetId, serverPc, probe, startLog,
          inventory, sheetInventory, orders, sheetOrders, faqs, sheetFaqs,
          nextId, now,
          pending, returned, issued, last>>

----------------------------------------------------------------------------
(* Bounds of the model. *)

\* Rows a store holds at the start.
MaxRows == 2
\* Orders created in one run.
MaxOrders == 2
\* Milliseconds the clock may advance.
MaxClock == 1

Callers == {1, 2}

\* The caller whose calls come one after another.
Sequential == {1}

----------------------------------------------------------------------------
(* JavaScript values. *)

Undefined == <<"undefined">>
Null == <<"null">>
UndefinedObj == [t |-> "undefined"]
NullObj == [t |-> "null"]
NaN == -1

IsString(v) == v # Undefined /\ v # Null

\* String.prototype.toLowerCase, on the letters the model uses.
LowerOf == [c \in {"A", "B", "T", "R", "U", "E"} |->
              CASE c = "A" -> "a" [] c = "B" -> "b" [] c = "T" -> "t"
                [] c = "R" -> "r" [] c = "U" -> "u" [] c = "E" -> "e"]

ToLowerChar(c) == IF c \in DOMAIN LowerOf THEN LowerOf[c] ELSE c

ToLowerCase(s) == [i \in 1..Len(s) |-> ToLowerChar(s[i])]

\* String.prototype.includes: needle occurs in hay at some offset.
Includes(hay, needle) ==
    \E i \in 0..(Len(hay) - Len(needle)) :
        SubSeq(hay, i + 1, i + Len(needle)) = needle

Digits == {"0", "1", "2"}

DigitValue(c) == CASE c = "0" -> 0 [] c = "1" -> 1 [] c = "2" -> 2

\* The value of the longest prefix of digits of s, continuing from acc.
RECURSIVE ParseDigits(_, _)
ParseDigits(s, acc) ==
    IF s = <<>> \/ Head(s) \notin Digits THEN acc
    ELSE ParseDigits(Tail(s), 10 * acc + DigitValue(Head(s)))

\* parseInt / parseFloat of a cell: NaN unless the cell starts with a digit.
ParseInt(cell) ==
    IF ~IsString(cell) \/ cell = <<>> \/ Head(cell) \notin Digits THEN NaN
    ELSE ParseDigits(cell, 0)

\* row[i] of a JavaScript array (i counted from 0).
Cell(row, i) == IF i + 1 <= Len(row) THEN row[i + 1] ELSE Undefined

\* row[4]?.toLowerCase() === 'true'
FlagIsTrue(cell) == IsString(cell) /\ ToLowerCase(cell) = <<"t", "r", "u", "e">>

----------------------------------------------------------------------------
(* What the stores may hold.  Neither store enforces the data model: a     *)
(* relational column may be NULL and its flag is whatever was last         *)
(* written; a spreadsheet row is the cells the API returns, a blank cell   *)
(* inside a row as the empty string and blank cells at the end of a row    *)
(* left out.                                                               *)

NameValues == {<<"A", "b">>, <<"b">>}

RelInventoryValues ==
    [name : NameValues \cup {Null}, price : {1}, quantity : {0, 1},
     is_available : BOOLEAN]

\* The tables of at most MaxRows rows, the row at position i having id i.
RelInventoryTables ==
    UNION {{[i \in 1..n |-> [id |-> i, name |-> f[i].name, price |-> f[i].price,
                             quantity |-> f[i].quantity,
                             is_available |-> f[i].is_available]] :
               f \in [1..n -> RelInventoryValues]} : n \in 0..MaxRows}

SheetInventoryRows ==
    {<<<<"1">>, n, <<"1">>, q, f>> :
        n \in NameValues \cup {<<>>}, q \in {<<"0">>, <<"1">>},
        f \in {<<"T", "R", "U", "E">>, <<"f", "a", "l", "s", "e">>}}
    \cup {<<<<"1">>>>, <<<<"1">>, <<"b">>, <<"1">>, <<"1">>>>}

SheetInventoryTables ==
    UNION {[1..n -> SheetInventoryRows] : n \in 0..MaxRows}

SampleInventory ==
    <<[id |-> 1, name |-> <<"A", "b">>, price |-> 1, quantity |-> 1,
       is_available |-> TRUE],
      [id |-> 2, name |-> <<"b">>, price |-> 1, quantity |-> 0,
       is_available |-> FALSE]>>

SampleSheetInventory ==
    <<(<<<<"1">>, <<"A", "b">>, <<"1">>, <<"1">>, <<"T", "R", "U", "E">>>>),
      (<<<<"2">>, <<"b">>, <<"1">>, <<"0">>, <<"f", "a", "l", "s", "e">>>>)>>

SampleFaqs ==
    <<[id |-> 1, question |-> <<"A", "b">>, answer |-> <<"b", "A">>,
       is_active |-> TRUE],
      [id |-> 2, question |-> <<"b">>, answer |-> <<"a">>, is_active |-> FALSE]>>

SampleSheetFaqs ==
    <<(<<<<"1">>, <<"A", "b">>, <<"b", "A">>, <<"t", "r", "u", "e">>>>),
      (<<<<"2">>, <<"b">>, <<"a">>, <<"f", "a", "l", "s", "e">>>>)>>

Needles == {<<>>, <<"a">>, <<"B">>, <<"a", "B">>}

Phones == {"+1555", "+1666"}
Totals == {1998, 500}
Quantities == {0, 1}
TransportErrors == {"ETIMEDOUT"}

EnvNames == {"SUPABASE_URL", "SUPABASE_ANON_KEY", "GOOGLE_SHEETS_API_KEY",
             "GOOGLE_SHEETS_SPREADSHEET_ID"}

----------------------------------------------------------------------------
(* new DatabaseService() *)

\* if (process.env.SUPABASE_URL && process.env.SUPABASE_ANON_KEY)
ConstructSupabase(e) == e["SUPABASE_URL"] /\ e["SUPABASE_ANON_KEY"]

\* if (process.env.GOOGLE_SHEETS_API_KEY)
ConstructSheets(e) == e["GOOGLE_SHEETS_API_KEY"]

NoCall == [phase |-> "idle"]

NoOutcome ==
    [op |-> "none", arg |-> <<>>, kind |-> "return", value |-> NullObj,
     calls |-> <<>>, logged |-> <<>>, after |-> NullObj]

\* The state once the module is loaded: the facade is constructed from the
\* environment e and startServer() is about to run; the stores hold the
\* given tables and no order yet.
Loaded(e, inv, sheetInv, faqTable, sheetFaqTable) ==
    /\ env = e
    /\ supabase = ConstructSupabase(e)
    /\ sheets = ConstructSheets(e)
    /\ spreadsheetId = e["GOOGLE_SHEETS_SPREADSHEET_ID"]
    /\ serverPc = "initializeDatabase"
    /\ probe = "none"
    /\ startLog = <<>>
    /\ inventory = inv
    /\ sheetInventory = sheetInv
    /\ faqs = faqTable
    /\ sheetFaqs = sheetFaqTable
    /\ orders = <<>>
    /\ sheetOrders = <<>>
    /\ nextId = 1
    /\ now = 0
    /\ pending = [c \in Callers |-> NoCall]
    /\ returned = [c \in Callers |-> NullObj]
    /\ issued = <<>>
    /\ last = NoOutcome

\* A store nothing is configured to reach holds nothing.
RelationalReachable(e) == ConstructSupabase(e)
SpreadsheetReachable(e) == ConstructSheets(e) /\ e["GOOGLE_SHEETS_SPREADSHEET_ID"]

\* Every configuration, over one menu and one FAQ list.
Init ==
    \E e \in [EnvNames -> BOOLEAN] :
        Loaded(e,
               IF RelationalReachable(e) THEN SampleInventory ELSE <<>>,
               IF SpreadsheetReachable(e) THEN SampleSheetInventory ELSE <<>>,
               IF RelationalReachable(e) THEN SampleFaqs ELSE <<>>,
               IF SpreadsheetReachable(e) THEN SampleSheetFaqs ELSE <<>>)

\* e sets both variables of an adapter or neither, and one adapter at most.
OneWholeAdapter(e) ==
    /\ e["SUPABASE_URL"] = e["SUPABASE_ANON_KEY"]
    /\ e["GOOGLE_SHEETS_API_KEY"] = e["GOOGLE_SHEETS_SPREADSHEET_ID"]
    /\ ~(ConstructSupabase(e) /\ ConstructSheets(e))

\* The relational adapter, the spreadsheet adapter or none, over one menu
\* and one FAQ list.
InitOrders ==
    \E e \in {x \in [EnvNames -> BOOLEAN] : OneWholeAdapter(x)} :
        Loaded(e,
               IF RelationalReachable(e) THEN SampleInventory ELSE <<>>,
               IF SpreadsheetReachable(e) THEN SampleSheetInventory ELSE <<>>,
               IF RelationalReachable(e) THEN SampleFaqs ELSE <<>>,
               IF SpreadsheetReachable(e) THEN SampleSheetFaqs ELSE <<>>)

\* Every configuration of at most one adapter, over every menu of at most
\* MaxRows rows.
InitCatalogue ==
    \E e \in {x \in [EnvNames -> BOOLEAN] : ~(ConstructSupabase(x) /\ ConstructSheets(x))} :
        \E inv \in (IF RelationalReachable(e) THEN RelInventoryTables ELSE {<<>>}),
           sheetInv \in (IF SpreadsheetReachable(e) THEN SheetInventoryTables
                         ELSE {<<>>}) :
            Loaded(e, inv, sheetInv, <<>>, <<>>)

----------------------------------------------------------------------------
(* Startup: startServer() and initializeDatabase(). *)

LogEntry(level, what) == [level |-> level, what |-> what]

\* What the probe can meet: the relational count query answers without an
\* error, answers with an error, or throws; the spreadsheet client is
\* accepted without a call; nothing is configured.
ProbeOutcomes ==
    IF supabase THEN {"ok", "error", "thrown"}
    ELSE IF sheets THEN {"sheets"}
    ELSE {"unconfigured"}

\* What initializeDatabase() logs for an outcome.
ProbeLog(outcome) ==
    CASE outcome = "ok" -> <<LogEntry("info", "Supabase connected successfully")>>
      [] outcome = "error" -> <<>>
      [] outcome = "thrown" ->
            <<LogEntry("error", "Database initialization failed")>>
      [] outcome = "sheets" -> <<LogEntry("info", "Google Sheets configured")>>
      [] outcome = "unconfigured" ->
            <<LogEntry("warn", "No database configuration found")>>

Frame == UNCHANGED <<env, supabase, sheets, spreadsheetId>>

StoresUnchanged ==
    UNCHANGED <<inventory, sheetInventory, orders, sheetOrders, faqs, sheetFaqs,
                nextId>>

CallsUnchanged == UNCHANGED <<pending, returned, issued, last>>

\* await initializeDatabase(): never raises, whatever the probe met.
InitializeDatabase ==
    /\ serverPc = "initializeDatabase"
    /\ \E outcome \in ProbeOutcomes :
          /\ probe' = outcome
          /\ startLog' = startLog \o ProbeLog(outcome)
    /\ serverPc' = "initializeSessionStore"
    /\ Frame /\ StoresUnchanged /\ CallsUnchanged /\ UNCHANGED now

\* await initializeSessionStore() returns and app.listen() is called.
StartListening ==
    /\ serverPc = "initializeSessionStore"
    /\ serverPc' = "listening"
    /\ startLog' = startLog \o <<LogEntry("info", "running on port"),
                                LogEntry("info", "Environment")>>
    /\ Frame /\ StoresUnchanged /\ CallsUnchanged /\ UNCHANGED <<now, probe>>

\* await initializeSessionStore() raises: the catch logs and exits.
StartFails ==
    /\ serverPc = "initializeSessionStore"
    /\ serverPc' = "exited"
    /\ startLog' = startLog \o <<LogEntry("error", "Failed to start server")>>
    /\ Frame /\ StoresUnchanged /\ CallsUnchanged /\ UNCHANGED <<now, probe>>

\* The clock advances.
Tick ==
    /\ now < MaxClock
    /\ now' = now + 1
    /\ Frame /\ StoresUnchanged /\ CallsUnchanged
    /\ UNCHANGED <<serverPc, probe, startLog>>

----------------------------------------------------------------------------
(* Outcomes of a facade call. *)

\* One transport call: which backend it went to and, when it failed, the
\* error the transport produced.
TransportCall(backend, ok, error) == [backend |-> backend, ok |-> ok, error |-> error]

\* A call that returned value.
Returns(value, calls, logged) ==
    [kind |-> "return", value |-> value, calls |-> calls, logged |-> logged]

\* A call that raised error to its caller.
Raises(error, calls, logged) ==
    [kind |-> "raise", value |-> error, calls |-> calls, logged |-> logged]

\* A catch block that raises an error of its own in place of the one caught.
RethrowWrapped(error) == "DatabaseError"

\* catch (error) { logger.error(..., error); throw error; }
Rethrow(error) == error

\* A transport call to backend failed with error e: the catch block of the
\* operation logs it and rethrows it.
TransportFailure(backend, e) ==
    Raises(Rethrow(e), <<TransportCall(backend, FALSE, e)>>, <<LogEntry("error", e)>>)

\* throw new Error('No database configuration found'), caught, logged and
\* rethrown by the same operation.
NoConfiguration ==
    Raises(Rethrow("No database configuration found"), <<>>,
           <<LogEntry("error", "No database configuration found")>>)

\* A spreadsheet call names this.spreadsheetId: without one the API has no
\* spreadsheet to answer for.
SheetsCanAnswer == spreadsheetId

\* caller c's call of op with arg completed as run; after is the order c's
\* createOrder() had just returned, where the operation is the lookup that
\* follows it.
Complete(c, op, arg, run, after) ==
    /\ last' = [op |-> op, arg |-> arg, kind |-> run.kind, value |-> run.value,
                calls |-> run.calls, logged |-> run.logged, after |-> after]
    /\ returned' = [returned EXCEPT ![c] = NullObj]

Ready(c) == serverPc = "listening" /\ pending[c].phase = "idle"

StartupUnchanged == UNCHANGED <<serverPc, probe, startLog, now>>

----------------------------------------------------------------------------
(* Inventory. *)

\* The canonical item of a spreadsheet row.
ParseInventoryRow(row) ==
    [id |-> ParseInt(Cell(row, 0)), name |-> Cell(row, 1),
     price |-> ParseInt(Cell(row, 2)), quantity |-> ParseInt(Cell(row, 3)),
     is_available |-> FlagIsTrue(Cell(row, 4))]

IsAvailableItem(item) == item.is_available = TRUE

\* .from('inventory').select('*').eq('is_available', true)
SelectAvailable == SelectSeq(inventory, IsAvailableItem)

\* response.data.values?.map(...).filter(item => item.is_available) || []
SheetAvailable ==
    SelectSeq([i \in 1..Len(sheetInventory) |-> ParseInventoryRow(sheetInventory[i])],
              IsAvailableItem)

\* getInventory() turning to the spreadsheet when the relational call fails.
GetInventoryFailover ==
    IF supabase THEN
        {Returns(SelectAvailable, <<TransportCall("supabase", TRUE, "none")>>, <<>>)}
        \cup {IF sheets /\ SheetsCanAnswer
              THEN Returns(SheetAvailable,
                           <<TransportCall("supabase", FALSE, e),
                             TransportCall("sheets", TRUE, "none")>>, <<>>)
              ELSE TransportFailure("supabase", e) : e \in TransportErrors}
    ELSE IF sheets THEN
        (IF SheetsCanAnswer
         THEN {Returns(SheetAvailable, <<TransportCall("sheets", TRUE, "none")>>, <<>>)}
         ELSE {})
        \cup {TransportFailure("sheets", e) : e \in TransportErrors}
    ELSE {NoConfiguration}

\* The runs of getInventory() in the current state.
GetInventoryRuns ==
    IF supabase THEN
        {Returns(SelectAvailable, <<TransportCall("supabase", TRUE, "none")>>, <<>>)}
        \cup {TransportFailure("supabase", e) : e \in TransportErrors}
    ELSE IF sheets THEN
        (IF SheetsCanAnswer
         THEN {Returns(SheetAvailable, <<TransportCall("sheets", TRUE, "none")>>, <<>>)}
         ELSE {})
        \cup {TransportFailure("sheets", e) : e \in TransportErrors}
    ELSE {NoConfiguration}

GetInventory(c) ==
    /\ Ready(c)
    /\ \E run \in GetInventoryRuns : Complete(c, "getInventory", <<>>, run, NullObj)
    /\ Frame /\ StoresUnchanged /\ StartupUnchanged /\ UNCHANGED <<pending, issued>>

\* item.name.toLowerCase().includes(itemName.toLowerCase())
NameMatches(item, itemName) ==
    Includes(ToLowerCase(item.name), ToLowerCase(itemName))

\* inventory.find(item => ...): the first item that matches, undefined when
\* none does; reading toLowerCase of a name that is no string is a TypeError.
RECURSIVE FindItem(_, _)
FindItem(items, itemName) ==
    IF items = <<>> THEN [kind |-> "return", value |-> UndefinedObj]
    ELSE IF ~IsString(Head(items).name) THEN [kind |-> "raise", value |-> "TypeError"]
    ELSE IF NameMatches(Head(items), itemName)
         THEN [kind |-> "return", value |-> Head(items)]
    ELSE FindItem(Tail(items), itemName)

\* The runs of getItemByName(itemName): those of its getInventory() call,
\* each followed by the search or by the outer catch block.
GetItemByNameRuns(itemName) ==
    {IF inv.kind = "raise"
     THEN Raises(Rethrow(inv.value), inv.calls,
                 inv.logged \o <<LogEntry("error", inv.value)>>)
     ELSE LET found == FindItem(inv.value, itemName) IN
          IF found.kind = "raise"
          THEN Raises(Rethrow(found.value), inv.calls,
                      inv.logged \o <<LogEntry("error", found.value)>>)
          ELSE Returns(found.value, inv.calls, inv.logged) :
     inv \in GetInventoryRuns}

GetItemByName(c) ==
    /\ Ready(c)
    /\ \E itemName \in Needles : \E run \in GetItemByNameRuns(itemName) :
          Complete(c, "getItemByName", itemName, run, NullObj)
    /\ Frame /\ StoresUnchanged /\ StartupUnchanged /\ UNCHANGED <<pending, issued>>

\* A flag that counts an empty stock as available.
AvailableForNonNegative(newQuantity) == newQuantity >= 0

\* is_available: newQuantity > 0
AvailableFor(newQuantity) == newQuantity > 0

\* .update({quantity, is_available}).eq('id', itemId)
UpdatedInventory(itemId, newQuantity) ==
    [i \in 1..Len(inventory) |->
        IF inventory[i].id = itemId
        THEN [inventory[i] EXCEPT !.quantity = newQuantity,
                                  !.is_available = AvailableFor(newQuantity)]
        ELSE inventory[i]]

\* What updateInventoryQuantity() returns where there is no relational client.
UpdateNotImplemented ==
    Returns(FALSE, <<>>,
            <<LogEntry("warn", "Google Sheets inventory update not implemented")>>)

UpdateInventoryQuantity(c) ==
    /\ Ready(c)
    /\ \E itemId \in 1..MaxRows, newQuantity \in Quantities :
          IF supabase THEN
              \/ /\ inventory' = UpdatedInventory(itemId, newQuantity)
                 /\ Complete(c, "updateInventoryQuantity", <<itemId, newQuantity>>,
                             Returns(TRUE, <<TransportCall("supabase", TRUE, "none")>>,
                                     <<LogEntry("info", "Updated inventory")>>),
                             NullObj)
              \/ /\ \E e \in TransportErrors :
                        Complete(c, "updateInventoryQuantity", <<itemId, newQuantity>>,
                                 TransportFailure("supabase", e), NullObj)
                 /\ UNCHANGED inventory
          ELSE
              /\ Complete(c, "updateInventoryQuantity", <<itemId, newQuantity>>,
                          UpdateNotImplemented, NullObj)
              /\ UNCHANGED inventory
    /\ Frame /\ StartupUnchanged
    /\ UNCHANGED <<sheetInventory, orders, sheetOrders, faqs, sheetFaqs, nextId,
                   pending, issued>>

----------------------------------------------------------------------------
(* Orders. *)

OrderItems == <<[itemId |-> 1, quantity |-> 2]>>

\* JSON.stringify(v): the text that parses back to v.
JsonStringify(v) == [json |-> v]

\* The order createOrder() builds before it calls the store.
NewOrder(orderData) ==
    [customer_phone |-> orderData.customerPhone,
     customer_name |-> orderData.customerName,
     items |-> JsonStringify(orderData.items),
     total_amount |-> orderData.totalAmount,
     status |-> "pending",
     created_at |-> now]

\* The row the store keeps and returns for order: order with the id the
\* store, or the facade, gives it.
WithId(order, id) ==
    [id |-> id, customer_phone |-> order.customer_phone,
     customer_name |-> order.customer_name, items |-> order.items,
     total_amount |-> order.total_amount, status |-> order.status,
     created_at |-> order.created_at]

\* The row createOrder() appends to the spreadsheet, its id cell empty.
SheetOrderRow(order) ==
    <<<<>>, order.customer_phone, order.customer_name, order.items,
      order.total_amount, order.status, order.created_at>>

\* return { ...order, id: Date.now() }
TemporaryId == now

InFlight == {c \in Callers : pending[c].phase # "idle"}

\* createOrder(orderData) up to its await: the order is built, stamped with
\* the time of the call, and handed to the configured store.
CreateOrderBegin(c) ==
    /\ Ready(c)
    /\ Len(orders) + Len(sheetOrders) + Cardinality(InFlight) < MaxOrders
    /\ \E phone \in Phones, total \in Totals :
          LET order == NewOrder([customerPhone |-> phone, customerName |-> "Ann",
                                 items |-> OrderItems, totalAmount |-> total])
          IN  IF supabase THEN
                  /\ pending' = [pending EXCEPT ![c] =
                                    [phase |-> "insert", order |-> order]]
                  /\ returned' = [returned EXCEPT ![c] = NullObj]
                  /\ UNCHANGED last
              ELSE IF sheets THEN
                  /\ pending' = [pending EXCEPT ![c] =
                                    [phase |-> "append", order |-> order]]
                  /\ returned' = [returned EXCEPT ![c] = NullObj]
                  /\ UNCHANGED last
              ELSE
                  /\ Complete(c, "createOrder", <<phone, total>>, NoConfiguration,
                              NullObj)
                  /\ UNCHANGED pending
    /\ Frame /\ StoresUnchanged /\ StartupUnchanged /\ UNCHANGED issued

OrderArg(order) == <<order.customer_phone, order.total_amount>>

\* The relational store answers .insert([order]).select().
CreateOrderInsert(c) ==
    /\ pending[c].phase = "insert"
    /\ LET order == pending[c].order IN
          \/ LET row == WithId(order, nextId) IN
                /\ orders' = Append(orders, row)
                /\ nextId' = nextId + 1
                /\ last' = [op |-> "createOrder", arg |-> OrderArg(order),
                            kind |-> "return", value |-> row,
                            calls |-> <<TransportCall("supabase", TRUE, "none")>>,
                            logged |-> <<LogEntry("info", "Order created")>>,
                            after |-> NullObj]
                /\ returned' = [returned EXCEPT ![c] = row]
                /\ issued' = Append(issued, row.id)
          \/ /\ \E e \in TransportErrors :
                    Complete(c, "createOrder", OrderArg(order),
                             TransportFailure("supabase", e), NullObj)
             /\ UNCHANGED <<orders, nextId, issued>>
    /\ pending' = [pending EXCEPT ![c] = NoCall]
    /\ Frame /\ StartupUnchanged
    /\ UNCHANGED <<inventory, sheetInventory, sheetOrders, faqs, sheetFaqs>>

\* The spreadsheet answers values.append(): the row is appended and the call
\* resumes later, or the call throws.
CreateOrderAppend(c) ==
    /\ pending[c].phase = "append"
    /\ LET order == pending[c].order IN
          \/ /\ SheetsCanAnswer
             /\ sheetOrders' = Append(sheetOrders, SheetOrderRow(order))
             /\ pending' = [pending EXCEPT ![c] =
                               [phase |-> "appended", order |-> order]]
             /\ UNCHANGED <<last, returned>>
          \/ /\ \E e \in TransportErrors :
                    Complete(c, "createOrder", OrderArg(order),
                             TransportFailure("sheets", e), NullObj)
             /\ pending' = [pending EXCEPT ![c] = NoCall]
             /\ UNCHANGED sheetOrders
    /\ Frame /\ StartupUnchanged
    /\ UNCHANGED <<inventory, sheetInventory, orders, faqs, sheetFaqs, nextId, issued>>

\* createOrder() resumes after the append and returns the order with the
\* id it takes from the clock.
CreateOrderReturn(c) ==
    /\ pending[c].phase = "appended"
    /\ LET row == WithId(pending[c].order, TemporaryId) IN
          /\ last' = [op |-> "createOrder", arg |-> OrderArg(pending[c].order),
                      kind |-> "return", value |-> row,
                      calls |-> <<TransportCall("sheets", TRUE, "none")>>,
                      logged |-> <<LogEntry("info", "Order created in Google Sheets")>>,
                      after |-> NullObj]
          /\ returned' = [returned EXCEPT ![c] = row]
          /\ issued' = Append(issued, row.id)
    /\ pending' = [pending EXCEPT ![c] = NoCall]
    /\ Frame /\ StoresUnchanged /\ StartupUnchanged

\* rows is ordered by created_at, newest first.
NewestFirst(rows) ==
    \A i \in 1..(Len(rows) - 1) : rows[i].created_at >= rows[i + 1].created_at

Injections(n) == {f \in [1..n -> 1..n] : \A i, j \in 1..n : f[i] = f[j] => i = j}

\* The answers of a store asked for the oldest first.
OrderByCreatedAtAsc(rows) ==
    {r \in {[i \in 1..Len(rows) |-> rows[f[i]]] : f \in Injections(Len(rows))} :
        \A i \in 1..(Len(r) - 1) : r[i].created_at <= r[i + 1].created_at}

\* .order('created_at', { ascending: false }): the answers the store may
\* give for rows; rows of one timestamp come in an order of its choosing.
OrderByCreatedAtDesc(rows) ==
    {r \in {[i \in 1..Len(rows) |-> rows[f[i]]] : f \in Injections(Len(rows))} :
        NewestFirst(r)}

\* .from('orders').select('*').eq('customer_phone', customerPhone)
OrdersOf(customerPhone) ==
    LET Mine(o) == o.customer_phone = customerPhone IN SelectSeq(orders, Mine)

\* A lookup that raises where it is not implemented.
OrderLookupRaises ==
    Raises("Not implemented", <<>>, <<LogEntry("error", "Not implemented")>>)

\* What getOrdersByPhone() returns where there is no relational client.
OrderLookupNotImplemented ==
    Returns(<<>>, <<>>,
            <<LogEntry("warn", "Google Sheets order lookup not implemented")>>)

\* The runs of getOrdersByPhone(customerPhone).
GetOrdersByPhoneRuns(customerPhone) ==
    IF supabase THEN
        {Returns(rows, <<TransportCall("supabase", TRUE, "none")>>, <<>>) :
            rows \in OrderByCreatedAtDesc(OrdersOf(customerPhone))}
        \cup {TransportFailure("supabase", e) : e \in TransportErrors}
    ELSE {OrderLookupNotImplemented}

GetOrdersByPhone(c) ==
    /\ Ready(c)
    /\ \E customerPhone \in Phones : \E run \in GetOrdersByPhoneRuns(customerPhone) :
          Complete(c, "getOrdersByPhone", customerPhone, run, returned[c])
    /\ Frame /\ StoresUnchanged /\ StartupUnchanged /\ UNCHANGED <<pending, issued>>

\* The error .single() answers with when the query selects no row.
NoRowError == "PGRST116"

\* .from('orders').select('*').eq('id', orderId).single()
SingleOrder(orderId) ==
    LET rows == {i \in 1..Len(orders) : orders[i].id = orderId} IN
    IF rows = {} THEN [data |-> NullObj, error |-> NoRowError]
    ELSE [data |-> orders[CHOOSE i \in rows : TRUE], error |-> "none"]

\* The runs of getOrderById(orderId).
GetOrderByIdRuns(orderId) ==
    IF supabase THEN
        {LET answer == SingleOrder(orderId) IN
         IF answer.error # "none"
         THEN TransportFailure("supabase", answer.error)
         ELSE Returns(answer.data, <<TransportCall("supabase", TRUE, "none")>>, <<>>)}
        \cup {TransportFailure("supabase", e) : e \in TransportErrors}
    ELSE {Returns(NullObj, <<>>, <<>>)}

GetOrderById(c) ==
    /\ Ready(c)
    /\ \E orderId \in 1..(MaxOrders + 1) : \E run \in GetOrderByIdRuns(orderId) :
          Complete(c, "getOrderById", orderId, run, NullObj)
    /\ Frame /\ StoresUnchanged /\ StartupUnchanged /\ UNCHANGED <<pending, issued>>

----------------------------------------------------------------------------
(* FAQs. *)

\* The canonical FAQ of a spreadsheet row.
ParseFaqRow(row) ==
    [id |-> ParseInt(Cell(row, 0)), question |-> Cell(row, 1),
     answer |-> Cell(row, 2), is_active |-> FlagIsTrue(Cell(row, 3))]

IsActiveFaq(faq) == faq.is_active = TRUE

\* The runs of getFAQs().
GetFAQsRuns ==
    IF supabase THEN
        {Returns(SelectSeq(faqs, IsActiveFaq),
                 <<TransportCall("supabase", TRUE, "none")>>, <<>>)}
        \cup {TransportFailure("supabase", e) : e \in TransportErrors}
    ELSE IF sheets THEN
        (IF SheetsCanAnswer
         THEN {Returns(SelectSeq([i \in 1..Len(sheetFaqs) |-> ParseFaqRow(sheetFaqs[i])],
                                 IsActiveFaq),
                       <<TransportCall("sheets", TRUE, "none")>>, <<>>)}
         ELSE {})
        \cup {TransportFailure("sheets", e) : e \in TransportErrors}
    ELSE {NoConfiguration}

GetFAQs(c) ==
    /\ Ready(c)
    /\ \E run \in GetFAQsRuns : Complete(c, "getFAQs", <<>>, run, NullObj)
    /\ Frame /\ StoresUnchanged /\ StartupUnchanged /\ UNCHANGED <<pending, issued>>

\* faq.question...includes(query...) || faq.answer...includes(query...)
FaqMatches(faq, query) ==
    \/ Includes(ToLowerCase(faq.question), ToLowerCase(query))
    \/ Includes(ToLowerCase(faq.answer), ToLowerCase(query))

\* faqs.find(faq => ...)
RECURSIVE FindFaq(_, _)
FindFaq(list, query) ==
    IF list = <<>> THEN UndefinedObj
    ELSE IF FaqMatches(Head(list), query) THEN Head(list)
    ELSE FindFaq(Tail(list), query)

\* The runs of searchFAQ(query).
SearchFAQRuns(query) ==
    {IF got.kind = "raise"
     THEN Raises(Rethrow(got.value), got.calls,
                 got.logged \o <<LogEntry("error", got.value)>>)
     ELSE Returns(FindFaq(got.value, query), got.calls, got.logged) :
     got \in GetFAQsRuns}

SearchFAQ(c) ==
    /\ Ready(c)
    /\ \E query \in Needles : \E run \in SearchFAQRuns(query) :
          Complete(c, "searchFAQ", query, run, NullObj)
    /\ Frame /\ StoresUnchanged /\ StartupUnchanged /\ UNCHANGED <<pending, issued>>

----------------------------------------------------------------------------

\* Startup and every operation of the facade, one call at a time.
Next ==
    \/ InitializeDatabase
    \/ StartListening
    \/ StartFails
    \/ \E c \in Sequential :
          \/ GetInventory(c)
          \/ GetItemByName(c)
          \/ UpdateInventoryQuantity(c)
          \/ CreateOrderBegin(c)
          \/ CreateOrderInsert(c)
          \/ CreateOrderAppend(c)
          \/ CreateOrderReturn(c)
          \/ GetOrdersByPhone(c)
          \/ GetOrderById(c)
          \/ GetFAQs(c)
          \/ SearchFAQ(c)

Spec == Init /\ [][Next]_vars

\* Startup, the clock, and createOrder() and getOrdersByPhone() of
\* concurrent callers.
NextOrders ==
    \/ InitializeDatabase
    \/ StartListening
    \/ StartFails
    \/ Tick
    \/ \E c \in Callers :
          \/ CreateOrderBegin(c)
          \/ CreateOrderInsert(c)
          \/ CreateOrderAppend(c)
          \/ CreateOrderReturn(c)
          \/ GetOrdersByPhone(c)

SpecOrders == InitOrders /\ [][NextOrders]_vars

\* Startup and the inventory operations alone.
NextCatalogue ==
    \/ InitializeDatabase
    \/ StartListening
    \/ StartFails
    \/ \E c \in Callers :
          \/ GetInventory(c)
          \/ GetItemByName(c)
          \/ UpdateInventoryQuantity(c)

SpecCatalogue == InitCatalogue /\ [][NextCatalogue]_vars

----------------------------------------------------------------------------
(* The claims. *)

NothingConfigured == \A n \in EnvNames : ~env[n]
RelationalAdapter == supabase
SpreadsheetAdapter == ~supabase /\ sheets

AllStores == <<inventory, sheetInventory, orders, sheetOrders, faqs, sheetFaqs>>

\* C1: with no configuration at all, every data operation raises the
\* no-configuration error to its caller instead of returning a value.
C1_UnconfiguredOperationsRaise ==
    (NothingConfigured /\ last.op # "none") =>
        (last.kind = "raise" /\ last.value = "No database configuration found")

\* C2: on the relational adapter getOrderById(id), for an id no stored order
\* has, returns the absence value; only an error other than "no row" is
\* raised.
C2_MissingOrderIsAbsent ==
    (RelationalAdapter /\ last.op = "getOrderById"
        /\ \A i \in 1..Len(orders) : orders[i].id # last.arg) =>
        IF last.kind = "return" THEN last.value = NullObj
        ELSE last.value # NoRowError

\* C3 as claimed: every item getInventory() returns has is_available = true
\* and is_available = (quantity > 0).
C3_ReturnedItemsInStock ==
    (last.op = "getInventory" /\ last.kind = "return") =>
        \A i \in 1..Len(last.value) :
            /\ last.value[i].is_available = TRUE
            /\ last.value[i].is_available = (last.value[i].quantity > 0)

\* C3 as amended: every item getInventory() returns has is_available = true,
\* and every row updateInventoryQuantity() writes has
\* is_available = (quantity > 0); a row written by other means may be
\* returned with quantity <= 0.
C3_ReturnedAvailableWritesConsistent ==
    /\ [](  (last.op = "getInventory" /\ last.kind = "return") =>
               \A i \in 1..Len(last.value) : last.value[i].is_available = TRUE)
    /\ [][\A i \in 1..Len(inventory) :
             inventory'[i] # inventory[i] =>
                inventory'[i].is_available = (inventory'[i].quantity > 0)]_vars

\* getInventory() returned a row whose flag is set although nothing is left.
C3_Witness ==
    /\ last.op = "getInventory" /\ last.kind = "return"
    /\ \E i \in 1..Len(last.value) : last.value[i].quantity = 0

\* C4: every call contacts one backend at most, the one fixed at
\* construction: the relational store whenever URL and key are both set, the
\* spreadsheet only when they are not; no spreadsheet call follows a failed
\* relational call.
C4_OneBackendFixedAtConstruction ==
    LET pair == env["SUPABASE_URL"] /\ env["SUPABASE_ANON_KEY"]
        calls == last.calls
    IN  /\ supabase = pair
        /\ sheets = env["GOOGLE_SHEETS_API_KEY"]
        /\ \A i \in 1..Len(calls) :
              /\ calls[i].backend = (IF pair THEN "supabase" ELSE "sheets")
              /\ calls[i].backend = "sheets" => env["GOOGLE_SHEETS_API_KEY"]
        /\ \A i, j \in 1..Len(calls) :
              (i < j /\ calls[i].backend = "supabase" /\ ~calls[i].ok) =>
                  calls[j].backend # "sheets"

\* Both adapters are configured and a relational call has failed.
C4_Witness ==
    /\ supabase /\ sheets /\ spreadsheetId
    /\ last.calls # <<>>
    /\ ~last.calls[1].ok

\* C5 as claimed: the lookup that follows a successful createOrder for the
\* same phone returns a newest-first sequence whose first element is the
\* order just created, whatever other createOrder calls are in flight.
C5_CreatedOrderComesFirst ==
    (RelationalAdapter /\ last.op = "getOrdersByPhone" /\ last.kind = "return"
        /\ last.after # NullObj /\ last.after.customer_phone = last.arg) =>
        /\ NewestFirst(last.value)
        /\ last.value # <<>>
        /\ last.value[1] = last.after

\* C5 as amended: that lookup returns a newest-first sequence that holds the
\* order just created, with its total_amount and status 'pending'; the order
\* is the first element when every other order returned has an earlier
\* created_at.
C5_CreatedOrderReturnedNewestFirst ==
    (RelationalAdapter /\ last.op = "getOrdersByPhone" /\ last.kind = "return"
        /\ last.after # NullObj /\ last.after.customer_phone = last.arg) =>
        /\ NewestFirst(last.value)
        /\ last.after.status = "pending"
        /\ \E i \in 1..Len(last.value) : last.value[i] = last.after
        /\ (\A i \in 1..Len(last.value) :
               last.value[i] # last.after =>
                   last.value[i].created_at < last.after.created_at)
           => last.value[1] = last.after

\* The lookup returned the order just created ahead of an older one.
C5_Witness ==
    /\ RelationalAdapter /\ last.op = "getOrdersByPhone" /\ last.kind = "return"
    /\ last.after # NullObj /\ last.after.customer_phone = last.arg
    /\ Len(last.value) >= 2
    /\ last.value[1] = last.after
    /\ last.value[2].created_at < last.after.created_at

\* C6: on the spreadsheet adapter updateInventoryQuantity() returns false and
\* getOrdersByPhone() returns the empty sequence, neither raises, and neither
\* changes a store; no inventory row changes at all.
C6_GapOperationsAreInert ==
    /\ [](SpreadsheetAdapter =>
            /\ last.op = "updateInventoryQuantity" =>
                  (last.kind = "return" /\ last.value = FALSE)
            /\ last.op = "getOrdersByPhone" =>
                  (last.kind = "return" /\ last.value = <<>>))
    /\ [][SpreadsheetAdapter =>
            /\ inventory' = inventory /\ sheetInventory' = sheetInventory
            /\ (last' # last
                  /\ last'.op \in {"updateInventoryQuantity", "getOrdersByPhone"})
               => AllStores' = AllStores]_vars

\* On the spreadsheet adapter the lookup follows a createOrder that succeeded
\* for the same phone.
C6_Witness ==
    /\ SpreadsheetAdapter
    /\ last.op = "getOrdersByPhone"
    /\ last.after # NullObj /\ last.after.customer_phone = last.arg
    /\ sheetOrders # <<>>

\* C7: on the spreadsheet adapter any two orders createOrder() has returned
\* have distinct ids.
C7_SynthesizedIdsDistinct ==
    SpreadsheetAdapter =>
        \A i, j \in 1..Len(issued) : i # j => issued[i] # issued[j]

\* The items the getInventory() call of the last operation was answered with.
AnsweredInventory == IF supabase THEN SelectAvailable ELSE SheetAvailable

\* C8: getItemByName(name) returns the first item of the getInventory()
\* result whose name contains name, compared without case, and absence when
\* there is none; it does not raise, whatever the rows hold.
C8_FirstMatchOrAbsence ==
    (last.op = "getItemByName" /\ last.calls # <<>> /\ last.calls[1].ok) =>
        LET items == AnsweredInventory
            matching == {i \in 1..Len(items) :
                            /\ IsString(items[i].name)
                            /\ Includes(ToLowerCase(items[i].name),
                                        ToLowerCase(last.arg))}
        IN  /\ last.kind = "return"
            /\ IF matching = {} THEN last.value = UndefinedObj
               ELSE last.value =
                       items[CHOOSE i \in matching : \A k \in matching : i <= k]

\* C9: a call makes one transport call at most; when that call fails the
\* operation logs the error and raises that very error.
C9_LogThenRethrowOnce ==
    /\ Len(last.calls) <= 1
    /\ \A i \in 1..Len(last.calls) :
          ~last.calls[i].ok =>
              /\ last.kind = "raise"
              /\ last.value = last.calls[i].error
              /\ \E k \in 1..Len(last.logged) :
                    last.logged[k] = LogEntry("error", last.calls[i].error)

\* An operation that calls another (getItemByName, searchFAQ) met a failed
\* transport call.
C9_Witness ==
    /\ last.op \in {"getItemByName", "searchFAQ"}
    /\ last.calls # <<>>
    /\ ~last.calls[1].ok
    /\ last.kind = "raise"

\* C10: whatever the startup probe met, initializeDatabase() has logged the
\* outcome and startup has gone on to its next step.
C10_ProbeOutcomeLogged ==
    probe # "none" =>
        /\ serverPc # "initializeDatabase"
        /\ startLog # <<>>
        /\ startLog[1].what \in
              {"Supabase connected successfully", "Database initialization failed",
               "Google Sheets configured", "No database configuration found"}

====
